---- MODULE Spec2Model ----
(***************************************************************************)
(* Verification model of the executable fragments of the MLOps course      *)
(* notebooks:                                                              *)
(*   - the FastAPI deployment app (single / silent / canary / bandit       *)
(*     routes) of "Deployment Types.ipynb",                                *)
(*   - the multi_armed_bandit simulation of "metrics_comparisons.ipynb",   *)
(*   - the slow_function tasks and the Counter actor of the Ray            *)
(*     introduction notebook,                                              *)
(*   - the DistributedRandomForest actor and the Ray Tune search of the    *)
(*     Ray pipeline notebook,                                              *)
(*   - the config.yaml loading script of lesson 9.                         *)
(*                                                                         *)
(* Trained models are black boxes: what a model does on one request        *)
(* (a label 0/1, or an exception with a message) is an input of the        *)
(* request.  random.random() draws are k / DrawScale, k in 0..DrawScale-1, *)
(* and probabilities are kept in percent, so "draw < 0.1" is               *)
(* k * 100 < 10 * DrawScale.  Success rates are compared as exact          *)
(* fractions (cross multiplication); for the counter values in range this  *)
(* orders them as Python's float division does.                            *)
(***************************************************************************)
EXTENDS Integers, Sequences, FiniteSets, TLC

VARIABLES
    (* which program is running: "app", "simulation", "counter" or "training" *)
    running,
    (* ---- Deployment Types.ipynb: module-level globals ---- *)
    model,                  \* model object served by /predict/single
    current_model,          \* model object loaded from current_model.joblib
    new_model,              \* model object loaded from new_model.joblib
    canary_percentage,      \* percent
    epsilon,                \* percent
    current_model_correct,
    new_model_correct,
    current_model_count,
    new_model_count,
    (* ---- the request handled last, atomically (one at a time) ---- *)
    request,                \* route, features, what each model does on it
    locals,                 \* the handler's locals worth observing
    response,               \* the HTTP response sent
    twin_response,          \* response to the same request had the new model
                            \* behaved differently (self-composition)
    lost,                   \* whether the last process stop discarded counted requests
    (* ---- the same bandit handler, one thread per request ---- *)
    th,                     \* per thread: pc and locals
    started,                \* /predict/bandit requests received
    completed,              \* successful /predict/bandit responses sent since
                            \* the process started
    overlapped,             \* whether, since the process started, a request
                            \* arrived while another was in flight
    (* ---- metrics_comparisons.ipynb: multi_armed_bandit ---- *)
    sim,
    (* ---- Ray notebooks: the driver and the actor of each program ---- *)
    counter,                \* Counter actor and the driver incrementing it
    dist_rf,                \* DistributedRandomForest actor and its driver
    tune,                   \* tune.run: the trials and their fold tasks
    tasks,                  \* the slow_function tasks and the driver collecting them
    (* ---- lesson 9: the script that loads config.yaml ---- *)
    yaml

(* ------------------------------ bounds --------------------------------- *)

\* /predict/bandit requests served per process lifetime (atomic handlers)
MaxRequests == 4
\* resolution of a random.random() draw
DrawScale == 10

(* ------------------------- program constants --------------------------- *)

EpsilonPct == 10
CanaryPct == 10
AccuracyPct == 80

NEW_FILE == "new_model.joblib"
CURRENT_FILE == "current_model.joblib"

(* ------------------------------ inputs --------------------------------- *)

\* data.features is "flat" (a flat list of values) or "empty" (the list [])

ReshapeError == "cannot reshape array of size 0 into shape (1,newaxis)"
FeatureCountError == "X has 3 features, but the model is expecting 20 features as input"
NotFiniteError == "Input X contains infinity or a value too large for dtype('float32')"

\* what model.predict(features)[0] does: a label, or an exception
CurrentOutcomes ==
    {[exc |-> "", label |-> 0], [exc |-> "", label |-> 1],
     [exc |-> FeatureCountError, label |-> 0]}

NewOutcomes ==
    {[exc |-> "", label |-> 0], [exc |-> "", label |-> 1],
     [exc |-> NotFiniteError, label |-> 0]}

\* the requests a route can receive; no model is consulted on features that do
\* not convert, so one oracle stands for all of them there
Requests(route) ==
    {[route |-> route, features |-> f, cur_out |-> c, new_out |-> n] :
        f \in {"flat"}, c \in CurrentOutcomes, n \in NewOutcomes}
    \cup {[route |-> route, features |-> "empty",
           cur_out |-> [exc |-> "", label |-> 0],
           new_out |-> [exc |-> "", label |-> 0]]}

Draws == 0 .. (DrawScale - 1)

\* random.random() < pct / 100
Below(draw, pct) == draw * 100 < pct * DrawScale

\* the draws that matter to a comparison with pct: the smallest, the largest,
\* and those within one step of pct on either side (pct itself included)
DrawsAround(pct) ==
    {d \in Draws : \/ d \in {0, DrawScale - 1}
                   \/ d * 100 - pct * DrawScale \in -100 .. 100}

(* --------------------------- handler pieces ---------------------------- *)

\* joblib.load(file): the model object is identified by its file
Load(file) == file

\* obj.predict(features)[0] on the request req
Predict(obj, req) == IF obj = NEW_FILE THEN req.new_out ELSE req.cur_out

\* mutant: the conversion accepts any list
ConvertNeverRaises(features) == FALSE

\* np.array(data.features).reshape(1, -1) raises on the empty list
ConvertRaises(features) == features = "empty"

\* the outcome of a try body
Raised(msg, consulted) ==
    [exc |-> msg, prediction |-> 0, model_used |-> "", consulted |-> consulted]

Returned(prediction, model_used, consulted) ==
    [exc |-> "", prediction |-> prediction, model_used |-> model_used,
     consulted |-> consulted]

NoResponse ==
    [status |-> 0, fields |-> {}, prediction |-> 0, model_used |-> "",
     detail |-> "", message |-> ""]

\* mutant: the exception escapes the handler (500 Internal Server Error)
HttpResponseUncaught(try) ==
    IF try.exc = ""
    THEN [NoResponse EXCEPT !.status = 200, !.fields = {"prediction"},
                            !.prediction = try.prediction]
    ELSE [NoResponse EXCEPT !.status = 500, !.fields = {"detail"},
                            !.detail = "Internal Server Error"]

\* return {...} / except Exception as e: raise HTTPException(400, str(e))
HttpResponse(try) ==
    IF try.exc = ""
    THEN [NoResponse EXCEPT
            !.status = 200,
            !.fields = IF try.model_used = "" THEN {"prediction"}
                       ELSE {"prediction", "model_used"},
            !.prediction = try.prediction,
            !.model_used = try.model_used]
    ELSE [NoResponse EXCEPT !.status = 400, !.fields = {"detail"},
                            !.detail = try.exc]

\* mutant: the route serves the current model
SingleTryCurrent(req, mdl) ==
    IF ConvertRaises(req.features) THEN Raised(ReshapeError, {})
    ELSE LET p == Predict(CURRENT_FILE, req) IN
         IF p.exc # "" THEN Raised(p.exc, {CURRENT_FILE})
         ELSE Returned(p.label, "", {CURRENT_FILE})

\* predict_single's try body
SingleTry(req, mdl) ==
    IF ConvertRaises(req.features) THEN Raised(ReshapeError, {})
    ELSE LET p == Predict(mdl, req) IN
         IF p.exc # "" THEN Raised(p.exc, {mdl})
         ELSE Returned(p.label, "", {mdl})

\* predict_silent's try body
SilentTry(req, cur, new) ==
    IF ConvertRaises(req.features) THEN Raised(ReshapeError, {})
    ELSE LET c == Predict(cur, req)
             n == Predict(new, req) IN
         IF c.exc # "" THEN Raised(c.exc, {cur})
         ELSE IF n.exc # "" THEN Raised(n.exc, {cur, new})
         ELSE Returned(c.label, "", {cur, new})

\* mutant: the draw is compared with <=
CanaryTryAtMost(req, draw, pct, cur, new) ==
    IF ConvertRaises(req.features) THEN Raised(ReshapeError, {})
    ELSE IF draw * 100 <= pct * DrawScale
         THEN LET p == Predict(new, req) IN
              IF p.exc # "" THEN Raised(p.exc, {new})
              ELSE Returned(p.label, "new", {new})
         ELSE LET p == Predict(cur, req) IN
              IF p.exc # "" THEN Raised(p.exc, {cur})
              ELSE Returned(p.label, "current", {cur})

\* predict_canary's try body
CanaryTry(req, draw, pct, cur, new) ==
    IF ConvertRaises(req.features) THEN Raised(ReshapeError, {})
    ELSE IF Below(draw, pct)
         THEN LET p == Predict(new, req) IN
              IF p.exc # "" THEN Raised(p.exc, {new})
              ELSE Returned(p.label, "new", {new})
         ELSE LET p == Predict(cur, req) IN
              IF p.exc # "" THEN Raised(p.exc, {cur})
              ELSE Returned(p.label, "current", {cur})

\* correct / count if count > 0 else 0, as a fraction <<numerator, denominator>>
Rate(correct, count) == IF count > 0 THEN <<correct, count>> ELSE <<0, 1>>

\* a >= b for fractions with positive denominators
RateGE(a, b) == a[1] * b[2] >= b[1] * a[2]

\* mutant: a tie goes to the current model
ExploitUseNewStrict(cur_correct, cur_count, new_correct, new_count) ==
    ~RateGE(Rate(cur_correct, cur_count), Rate(new_correct, new_count))

\* mutant: the comparison is the wrong way round
ExploitUseNewWorse(cur_correct, cur_count, new_correct, new_count) ==
    RateGE(Rate(cur_correct, cur_count), Rate(new_correct, new_count))

\* use_new_model = new_rate >= current_rate
ExploitUseNew(cur_correct, cur_count, new_correct, new_count) ==
    RateGE(Rate(new_correct, new_count), Rate(cur_correct, cur_count))

\* the handler's locals that the properties observe (draw: the value of
\* predict_canary's random.random(), in units of 1 / DrawScale)
NoLocals ==
    [branch |-> "none", use_new_model |-> FALSE, consulted |-> {}, draw |-> 0]

\* mutant: the count is incremented before the prediction is attempted
BanditRunCountsFirst(req, explore, choice, correct, cc, cn, nc, nn, cur, new) ==
    IF ConvertRaises(req.features)
    THEN [try |-> Raised(ReshapeError, {}), locals |-> NoLocals,
          cc |-> cc, cn |-> cn, nc |-> nc, nn |-> nn]
    ELSE LET use_new_model == IF explore THEN choice
                              ELSE ExploitUseNew(cc, cn, nc, nn)
             chosen == IF use_new_model THEN new ELSE cur
             p == Predict(chosen, req)
             loc == [NoLocals EXCEPT
                       !.branch = IF explore THEN "explore" ELSE "exploit",
                       !.use_new_model = use_new_model,
                       !.consulted = {chosen}]
             hit == IF correct THEN 1 ELSE 0
         IN  IF p.exc # ""
             THEN IF use_new_model
                  THEN [try |-> Raised(p.exc, {chosen}), locals |-> loc,
                        cc |-> cc, cn |-> cn, nc |-> nc, nn |-> nn + 1]
                  ELSE [try |-> Raised(p.exc, {chosen}), locals |-> loc,
                        cc |-> cc, cn |-> cn + 1, nc |-> nc, nn |-> nn]
             ELSE IF use_new_model
             THEN [try |-> Returned(p.label, "new", {chosen}), locals |-> loc,
                   cc |-> cc, cn |-> cn, nc |-> nc + hit, nn |-> nn + 1]
             ELSE [try |-> Returned(p.label, "current", {chosen}), locals |-> loc,
                   cc |-> cc + hit, cn |-> cn + 1, nc |-> nc, nn |-> nn]

\* mutant: a correct prediction is credited to the model that was not used
BanditRunCreditsOther(req, explore, choice, correct, cc, cn, nc, nn, cur, new) ==
    IF ConvertRaises(req.features)
    THEN [try |-> Raised(ReshapeError, {}), locals |-> NoLocals,
          cc |-> cc, cn |-> cn, nc |-> nc, nn |-> nn]
    ELSE LET use_new_model == IF explore THEN choice
                              ELSE ExploitUseNew(cc, cn, nc, nn)
             chosen == IF use_new_model THEN new ELSE cur
             p == Predict(chosen, req)
             loc == [NoLocals EXCEPT
                       !.branch = IF explore THEN "explore" ELSE "exploit",
                       !.use_new_model = use_new_model,
                       !.consulted = {chosen}]
             hit == IF correct THEN 1 ELSE 0
         IN  IF p.exc # ""
             THEN [try |-> Raised(p.exc, {chosen}), locals |-> loc,
                   cc |-> cc, cn |-> cn, nc |-> nc, nn |-> nn]
             ELSE IF use_new_model
             THEN [try |-> Returned(p.label, "new", {chosen}), locals |-> loc,
                   cc |-> cc + hit, cn |-> cn, nc |-> nc, nn |-> nn + 1]
             ELSE [try |-> Returned(p.label, "current", {chosen}), locals |-> loc,
                   cc |-> cc, cn |-> cn + 1, nc |-> nc + hit, nn |-> nn]

\* predict_bandit run to completion on the counter values it finds:
\* the try body's outcome, the locals and the counters it leaves
BanditRun(req, explore, choice, correct, cc, cn, nc, nn, cur, new) ==
    IF ConvertRaises(req.features)
    THEN [try |-> Raised(ReshapeError, {}), locals |-> NoLocals,
          cc |-> cc, cn |-> cn, nc |-> nc, nn |-> nn]
    ELSE LET use_new_model == IF explore THEN choice
                              ELSE ExploitUseNew(cc, cn, nc, nn)
             chosen == IF use_new_model THEN new ELSE cur
             p == Predict(chosen, req)
             loc == [NoLocals EXCEPT
                       !.branch = IF explore THEN "explore" ELSE "exploit",
                       !.use_new_model = use_new_model,
                       !.consulted = {chosen}]
             hit == IF correct THEN 1 ELSE 0
         IN  IF p.exc # ""
             THEN [try |-> Raised(p.exc, {chosen}), locals |-> loc,
                   cc |-> cc, cn |-> cn, nc |-> nc, nn |-> nn]
             ELSE IF use_new_model
             THEN [try |-> Returned(p.label, "new", {chosen}), locals |-> loc,
                   cc |-> cc, cn |-> cn, nc |-> nc + hit, nn |-> nn + 1]
             ELSE [try |-> Returned(p.label, "current", {chosen}), locals |-> loc,
                   cc |-> cc + hit, cn |-> cn + 1, nc |-> nc, nn |-> nn]

(* ------------------- the app, one request at a time -------------------- *)

globals == <<model, current_model, new_model, canary_percentage, epsilon>>
banditCounters == <<current_model_correct, new_model_correct,
              current_model_count, new_model_count>>
handled == <<request, locals, response, twin_response>>
appVars == <<globals, banditCounters, handled, lost>>
concVars == <<th, started, completed, overlapped>>
rayVars == <<counter, dist_rf>>
vars == <<running, appVars, concVars, sim, rayVars, tune, yaml, tasks>>

Threads == {1, 2}

\* alone: no other request has been in flight since this one arrived
IdleThread ==
    [pc |-> "idle", use_new_model |-> FALSE, reg |-> 0,
     current_rate |-> <<0, 1>>, new_rate |-> <<0, 1>>, alone |-> FALSE]

IdleSim ==
    [pc |-> "idle", n_rounds |-> 0, epsilon |-> 0, round |-> 0,
     chosen_model |-> "", explored |-> FALSE,
     model_a_correct |-> 0, model_b_correct |-> 0,
     model_a_count |-> 0, model_b_count |-> 0]

Startup ==
    [route |-> "startup", features |-> "empty",
     cur_out |-> [exc |-> "", label |-> 0],
     new_out |-> [exc |-> "", label |-> 0]]

IdleCounter ==
    [pc |-> "idle", calls |-> 0, submitted |-> 0, mailbox |-> <<>>,
     executing |-> {}, value |-> 0, results |-> <<>>, got |-> <<>>]

IdleTraining ==
    [pc |-> "idle", rows |-> 0, chunk_size |-> 0, i |-> 0, mailbox |-> <<>>,
     finished |-> 0, fitted_on |-> {}]

IdleTune == [pc |-> "idle", trials |-> <<>>]

IdleTasks ==
    [pc |-> "idle", n |-> 0, workers |-> 0, refs |-> <<>>, executing |-> {},
     finished |-> <<>>, store |-> <<>>, results |-> <<>>]

IdleYaml ==
    [pc |-> "idle", file |-> <<>>, config |-> <<>>, path |-> <<>>,
     printed |-> [tag |-> "", text |-> "", num |-> 0]]

\* the app when its process starts: the module-level cells have run, no request
\* has arrived
AppAtStart ==
    /\ model = Load(NEW_FILE)
    /\ current_model = Load(CURRENT_FILE)
    /\ new_model = Load(NEW_FILE)
    /\ canary_percentage = CanaryPct
    /\ epsilon = EpsilonPct
    /\ current_model_correct = 0
    /\ new_model_correct = 0
    /\ current_model_count = 0
    /\ new_model_count = 0
    /\ request = Startup
    /\ locals = NoLocals
    /\ response = NoResponse
    /\ twin_response = NoResponse
    /\ lost = FALSE
    /\ th = [t \in Threads |-> IdleThread]
    /\ started = 0
    /\ completed = 0
    /\ overlapped = FALSE

InitApp ==
    /\ tasks = IdleTasks
    /\ tune = IdleTune
    /\ yaml = IdleYaml
    /\ running = "app"
    /\ AppAtStart
    /\ sim = IdleSim
    /\ counter = IdleCounter
    /\ dist_rf = IdleTraining

\* mutant: the counters survive the restart (as if they were persisted)
RestartPersisting ==
    /\ running = "app"
    /\ request' = Startup
    /\ locals' = NoLocals
    /\ response' = NoResponse
    /\ twin_response' = NoResponse
    /\ lost' = (current_model_count + new_model_count > 0)
    /\ th' = [t \in Threads |-> IdleThread]
    /\ started' = 0
    /\ completed' = 0
    /\ overlapped' = FALSE
    /\ UNCHANGED <<running, yaml, tune, tasks, globals, banditCounters, sim, rayVars>>

\* the process stops and starts again: requests in flight are gone, the
\* module-level cells run anew
Restart ==
    /\ running = "app"
    /\ model' = Load(NEW_FILE)
    /\ current_model' = Load(CURRENT_FILE)
    /\ new_model' = Load(NEW_FILE)
    /\ canary_percentage' = CanaryPct
    /\ epsilon' = EpsilonPct
    /\ current_model_correct' = 0
    /\ new_model_correct' = 0
    /\ current_model_count' = 0
    /\ new_model_count' = 0
    /\ request' = Startup
    /\ locals' = NoLocals
    /\ response' = NoResponse
    /\ twin_response' = NoResponse
    /\ lost' = (current_model_count + new_model_count > 0)
    /\ th' = [t \in Threads |-> IdleThread]
    /\ started' = 0
    /\ completed' = 0
    /\ overlapped' = FALSE
    /\ UNCHANGED <<running, yaml, tune, tasks, sim, rayVars>>

\* GET /
read_root ==
    /\ running = "app"
    /\ request' = [Startup EXCEPT !.route = "root"]
    /\ locals' = NoLocals
    /\ response' = [NoResponse EXCEPT
                      !.status = 200, !.fields = {"message"},
                      !.message = "Welcome to the ML Model Deployment API"]
    /\ twin_response' = response'
    /\ UNCHANGED <<running, yaml, tune, tasks, globals, banditCounters, lost, concVars, sim, rayVars>>

\* POST /predict/single
predict_single ==
    /\ running = "app"
    /\ \E req \in Requests("single") :
          LET try == SingleTry(req, model) IN
          /\ request' = req
          /\ locals' = [NoLocals EXCEPT !.consulted = try.consulted]
          /\ response' = HttpResponse(try)
          /\ twin_response' = response'
    /\ UNCHANGED <<running, yaml, tune, tasks, globals, banditCounters, lost, concVars, sim, rayVars>>

\* POST /predict/silent; the twin handles the same request with a new model
\* that behaves as new_twin instead
predict_silent ==
    /\ running = "app"
    /\ \E req \in Requests("silent"), new_twin \in NewOutcomes :
          LET try == SilentTry(req, current_model, new_model)
              twin == SilentTry([req EXCEPT !.new_out = new_twin],
                                current_model, new_model) IN
          /\ request' = req
          /\ locals' = [NoLocals EXCEPT !.consulted = try.consulted]
          /\ response' = HttpResponse(try)
          /\ twin_response' = HttpResponse(twin)
    /\ UNCHANGED <<running, yaml, tune, tasks, globals, banditCounters, lost, concVars, sim, rayVars>>

\* mutant: every canary request raises the canary share by ten points
predict_canary_ramping ==
    /\ running = "app"
    /\ \E req \in Requests("canary"), draw \in DrawsAround(canary_percentage) :
          LET try == CanaryTry(req, draw, canary_percentage,
                               current_model, new_model) IN
          /\ request' = req
          /\ locals' = [NoLocals EXCEPT
                          !.branch = IF Below(draw, canary_percentage)
                                     THEN "canary" ELSE "stable",
                          !.consulted = try.consulted,
                          !.draw = draw]
          /\ response' = HttpResponse(try)
          /\ twin_response' = response'
    /\ canary_percentage' = IF canary_percentage < 100
                            THEN canary_percentage + 10 ELSE 100
    /\ UNCHANGED <<running, yaml, tune, tasks, model, current_model, new_model, epsilon,
                   banditCounters, lost, concVars, sim, rayVars>>

\* POST /predict/canary
predict_canary ==
    /\ running = "app"
    /\ \E req \in Requests("canary"), draw \in DrawsAround(canary_percentage) :
          LET try == CanaryTry(req, draw, canary_percentage,
                               current_model, new_model) IN
          /\ request' = req
          /\ locals' = [NoLocals EXCEPT
                          !.branch = IF Below(draw, canary_percentage)
                                     THEN "canary" ELSE "stable",
                          !.consulted = try.consulted,
                          !.draw = draw]
          /\ response' = HttpResponse(try)
          /\ twin_response' = response'
    /\ UNCHANGED <<running, yaml, tune, tasks, globals, banditCounters, lost, concVars, sim, rayVars>>

\* POST /predict/bandit, handled start to end with no other request in between
BanditRequest(explore, choice) ==
    /\ running = "app"
    /\ current_model_count + new_model_count < MaxRequests
    /\ explore \in {Below(draw, epsilon) : draw \in Draws}
    /\ \E req \in Requests("bandit"),
          correct \in {Below(draw, AccuracyPct) : draw \in Draws} :
          LET run == BanditRun(req, explore, choice, correct,
                               current_model_correct, current_model_count,
                               new_model_correct, new_model_count,
                               current_model, new_model) IN
          /\ request' = req
          /\ locals' = run.locals
          /\ response' = HttpResponse(run.try)
          /\ twin_response' = response'
          /\ current_model_correct' = run.cc
          /\ current_model_count' = run.cn
          /\ new_model_correct' = run.nc
          /\ new_model_count' = run.nn
          /\ completed' = IF run.try.exc = "" THEN completed + 1 ELSE completed
    /\ UNCHANGED <<running, yaml, tune, tasks, globals, lost, th, started, overlapped, sim, rayVars>>

\* random.random() < epsilon and random.choice([True, False]) gives True
BanditExploreNew == BanditRequest(TRUE, TRUE)

\* mutant: random.choice never gives False
BanditExploreNeverCurrent == BanditRequest(TRUE, TRUE)

\* random.random() < epsilon and random.choice([True, False]) gives False
BanditExploreCurrent == BanditRequest(TRUE, FALSE)

\* random.random() >= epsilon
BanditExploit == BanditRequest(FALSE, FALSE)

predict_bandit == BanditExploreNew \/ BanditExploreCurrent \/ BanditExploit

NextApp ==
    \/ read_root
    \/ predict_single
    \/ predict_silent
    \/ predict_canary
    \/ BanditExploreNew
    \/ BanditExploreCurrent
    \/ BanditExploit
    \/ Restart

Spec == InitApp /\ [][NextApp]_vars

(* ---- /predict/bandit, one thread per request, a step per access ------- *)
(* FastAPI runs a "def" handler in a thread pool.  A step is one read or    *)
(* one write of a global counter; "x += 1" is a read of x followed by a     *)
(* write of the value read plus one.                                        *)

\* /predict/bandit requests received by the threads in all
MaxStarted == 3

\* mutant: the increment is atomic (adds one to the value the counter holds now)
IncrementAtomic(reg, now) == now + 1

\* the value "x += 1" stores: one more than the value it read, whatever the
\* counter holds by now
IncrementStore(reg, now) == reg + 1

\* the request arrives: conversion, then random.random() < epsilon
b_start(t) ==
    /\ th[t].pc = "idle"
    /\ started < MaxStarted
    /\ started' = started + 1
    /\ overlapped' = (overlapped \/ \E u \in Threads \ {t} : th[u].pc # "idle")
    /\ \E features \in {"flat", "empty"}, draw \in Draws, choice \in BOOLEAN :
          LET alone == \A u \in Threads \ {t} : th[u].pc = "idle" IN
          th' = [u \in Threads |->
                   IF u # t THEN [th[u] EXCEPT !.alone = FALSE]
                   ELSE IF ConvertRaises(features) THEN IdleThread
                   ELSE IF Below(draw, epsilon)
                   THEN [IdleThread EXCEPT !.pc = "predict", !.alone = alone,
                                           !.use_new_model = choice]
                   ELSE [IdleThread EXCEPT !.pc = "cur_test", !.alone = alone]]
    /\ UNCHANGED <<running, yaml, tune, tasks, appVars, completed, sim, rayVars>>

\* ... if current_model_count > 0 else 0
b_cur_test(t) ==
    /\ th[t].pc = "cur_test"
    /\ th' = [th EXCEPT ![t].pc = IF current_model_count > 0
                                  THEN "cur_num" ELSE "new_test",
                        ![t].current_rate = <<0, 1>>]
    /\ UNCHANGED <<running, yaml, tune, tasks, appVars, started, overlapped, completed, sim, rayVars>>

\* current_model_correct / ...
b_cur_num(t) ==
    /\ th[t].pc = "cur_num"
    /\ th' = [th EXCEPT ![t].pc = "cur_den", ![t].reg = current_model_correct]
    /\ UNCHANGED <<running, yaml, tune, tasks, appVars, started, overlapped, completed, sim, rayVars>>

\* ... / current_model_count
b_cur_den(t) ==
    /\ th[t].pc = "cur_den"
    /\ th' = [th EXCEPT ![t].pc = "new_test", ![t].reg = 0,
                        ![t].current_rate = <<th[t].reg, current_model_count>>]
    /\ UNCHANGED <<running, yaml, tune, tasks, appVars, started, overlapped, completed, sim, rayVars>>

\* ... if new_model_count > 0 else 0; then use_new_model = new_rate >= current_rate
b_new_test(t) ==
    /\ th[t].pc = "new_test"
    /\ th' = [th EXCEPT ![t] =
                 IF new_model_count > 0
                 THEN [th[t] EXCEPT !.pc = "new_num"]
                 ELSE [th[t] EXCEPT !.pc = "predict",
                                    !.new_rate = <<0, 1>>,
                                    !.use_new_model =
                                        RateGE(<<0, 1>>, th[t].current_rate)]]
    /\ UNCHANGED <<running, yaml, tune, tasks, appVars, started, overlapped, completed, sim, rayVars>>

\* new_model_correct / ...
b_new_num(t) ==
    /\ th[t].pc = "new_num"
    /\ th' = [th EXCEPT ![t].pc = "new_den", ![t].reg = new_model_correct]
    /\ UNCHANGED <<running, yaml, tune, tasks, appVars, started, overlapped, completed, sim, rayVars>>

\* ... / new_model_count; then use_new_model = new_rate >= current_rate
b_new_den(t) ==
    /\ th[t].pc = "new_den"
    /\ LET new_rate == <<th[t].reg, new_model_count>> IN
       th' = [th EXCEPT ![t].pc = "predict", ![t].reg = 0,
                        ![t].new_rate = new_rate,
                        ![t].use_new_model = RateGE(new_rate, th[t].current_rate)]
    /\ UNCHANGED <<running, yaml, tune, tasks, appVars, started, overlapped, completed, sim, rayVars>>

\* the chosen model's predict: it raises (HTTP 400) or returns a label
b_predict(t) ==
    /\ th[t].pc = "predict"
    /\ \E out \in IF th[t].use_new_model THEN NewOutcomes ELSE CurrentOutcomes :
          th' = [th EXCEPT ![t] = IF out.exc # "" THEN IdleThread
                                  ELSE [th[t] EXCEPT !.pc = "count_read"]]
    /\ UNCHANGED <<running, yaml, tune, tasks, appVars, started, overlapped, completed, sim, rayVars>>

\* new_model_count += 1 / current_model_count += 1: the read
b_count_read(t) ==
    /\ th[t].pc = "count_read"
    /\ th' = [th EXCEPT ![t].pc = "count_write",
                        ![t].reg = IF th[t].use_new_model THEN new_model_count
                                   ELSE current_model_count]
    /\ UNCHANGED <<running, yaml, tune, tasks, appVars, started, overlapped, completed, sim, rayVars>>

\* mutant: the count is left as it was
b_count_write_dropped(t) ==
    /\ th[t].pc = "count_write"
    /\ th' = [th EXCEPT ![t].pc = "accuracy", ![t].reg = 0]
    /\ UNCHANGED <<running, yaml, tune, tasks, appVars, started, overlapped, completed,
                   sim, rayVars>>

\* new_model_count += 1 / current_model_count += 1: the write
b_count_write(t) ==
    /\ th[t].pc = "count_write"
    /\ IF th[t].use_new_model
       THEN /\ new_model_count' = IncrementStore(th[t].reg, new_model_count)
            /\ UNCHANGED current_model_count
       ELSE /\ current_model_count' =
                   IncrementStore(th[t].reg, current_model_count)
            /\ UNCHANGED new_model_count
    /\ th' = [th EXCEPT ![t].pc = "accuracy", ![t].reg = 0]
    /\ UNCHANGED <<running, yaml, tune, tasks, globals, current_model_correct, new_model_correct,
                   handled, lost, started, overlapped, completed, sim, rayVars>>

\* if random.random() < 0.8; when not, the response is returned
b_accuracy(t) ==
    /\ th[t].pc = "accuracy"
    /\ \E draw \in Draws :
          IF Below(draw, AccuracyPct)
          THEN /\ th' = [th EXCEPT ![t].pc = "correct_read"]
               /\ UNCHANGED completed
          ELSE /\ th' = [th EXCEPT ![t] = IdleThread]
               /\ completed' = completed + 1
    /\ UNCHANGED <<running, yaml, tune, tasks, appVars, started, overlapped, sim, rayVars>>

\* new_model_correct += 1 / current_model_correct += 1: the read
b_correct_read(t) ==
    /\ th[t].pc = "correct_read"
    /\ th' = [th EXCEPT ![t].pc = "correct_write",
                        ![t].reg = IF th[t].use_new_model THEN new_model_correct
                                   ELSE current_model_correct]
    /\ UNCHANGED <<running, yaml, tune, tasks, appVars, started, overlapped, completed, sim, rayVars>>

\* new_model_correct += 1 / current_model_correct += 1: the write; then the
\* response is returned
b_correct_write(t) ==
    /\ th[t].pc = "correct_write"
    /\ IF th[t].use_new_model
       THEN /\ new_model_correct' = IncrementStore(th[t].reg, new_model_correct)
            /\ UNCHANGED current_model_correct
       ELSE /\ current_model_correct' =
                   IncrementStore(th[t].reg, current_model_correct)
            /\ UNCHANGED new_model_correct
    /\ th' = [th EXCEPT ![t] = IdleThread]
    /\ completed' = completed + 1
    /\ UNCHANGED <<running, yaml, tune, tasks, globals, current_model_count, new_model_count,
                   handled, lost, started, overlapped, sim, rayVars>>

ThreadStep ==
    \E t \in Threads :
        \/ b_start(t)
        \/ b_cur_test(t)
        \/ b_cur_num(t)
        \/ b_cur_den(t)
        \/ b_new_test(t)
        \/ b_new_num(t)
        \/ b_new_den(t)
        \/ b_predict(t)
        \/ b_count_read(t)
        \/ b_count_write(t)
        \/ b_accuracy(t)
        \/ b_correct_read(t)
        \/ b_correct_write(t)

NextConc ==
    \/ ThreadStep
    \/ Restart

ConcSpec == InitApp /\ [][NextConc]_vars

(* -------- metrics_comparisons.ipynb: multi_armed_bandit(...) ----------- *)

\* rounds of one simulation call
MaxRounds == 4

\* epsilon arguments tried, in percent (the default is 0.1)
SimEpsilons == {0, EpsilonPct, 100}

InitSim ==
    /\ tasks = IdleTasks
    /\ tune = IdleTune
    /\ yaml = IdleYaml
    /\ running = "simulation"
    /\ AppAtStart
    /\ sim = IdleSim
    /\ counter = IdleCounter
    /\ dist_rf = IdleTraining

\* chosen_model = 'A' if model_a_rate >= model_b_rate else 'B'
SimExploitChoice(a_correct, a_count, b_correct, b_count) ==
    IF RateGE(Rate(a_correct, a_count), Rate(b_correct, b_count))
    THEN "A" ELSE "B"

\* the call: the four locals start at 0
SimCall ==
    /\ running = "simulation"
    /\ sim.pc # "loop"
    /\ \E n \in 0 .. MaxRounds, eps \in SimEpsilons :
          sim' = [IdleSim EXCEPT !.pc = "loop", !.n_rounds = n, !.epsilon = eps]
    /\ UNCHANGED <<running, yaml, tune, tasks, appVars, concVars, rayVars>>

\* one round of the loop; pred == true_y is decided by the sample drawn
SimRound(explore, choice) ==
    /\ running = "simulation"
    /\ sim.pc = "loop"
    /\ sim.round < sim.n_rounds
    /\ explore \in {Below(draw, sim.epsilon) : draw \in Draws}
    /\ \E correct \in BOOLEAN :
          LET chosen_model ==
                  IF explore THEN choice
                  ELSE SimExploitChoice(sim.model_a_correct, sim.model_a_count,
                                        sim.model_b_correct, sim.model_b_count)
              hit == IF correct THEN 1 ELSE 0
          IN  sim' = IF chosen_model = "A"
                     THEN [sim EXCEPT !.round = @ + 1,
                                      !.chosen_model = chosen_model,
                                      !.explored = explore,
                                      !.model_a_count = @ + 1,
                                      !.model_a_correct = @ + hit]
                     ELSE [sim EXCEPT !.round = @ + 1,
                                      !.chosen_model = chosen_model,
                                      !.explored = explore,
                                      !.model_b_count = @ + 1,
                                      !.model_b_correct = @ + hit]
    /\ UNCHANGED <<running, yaml, tune, tasks, appVars, concVars, rayVars>>

\* np.random.random() < epsilon and np.random.choice(['A', 'B']) gives 'A'
SimExploreA == SimRound(TRUE, "A")

\* np.random.random() < epsilon and np.random.choice(['A', 'B']) gives 'B'
SimExploreB == SimRound(TRUE, "B")

\* np.random.random() >= epsilon
SimExploit == SimRound(FALSE, "A")

\* the four print calls after the loop: the first two divide by the counts
SimReport ==
    /\ running = "simulation"
    /\ sim.pc = "loop"
    /\ sim.round = sim.n_rounds
    /\ sim' = [sim EXCEPT !.pc = IF sim.model_a_count = 0 \/ sim.model_b_count = 0
                                 THEN "ZeroDivisionError" ELSE "done"]
    /\ UNCHANGED <<running, yaml, tune, tasks, appVars, concVars, rayVars>>

NextSim ==
    \/ SimCall
    \/ SimExploreA
    \/ SimExploreB
    \/ SimExploit
    \/ SimReport

SimSpec == InitSim /\ [][NextSim]_vars

(* --------------------- fairness of the random draws -------------------- *)

\* a /predict/bandit request that reaches its random draws
BanditDraws == predict_bandit /\ locals'.branch # "none"
BanditSelectsNew == BanditDraws /\ locals'.use_new_model
BanditSelectsCurrent == BanditDraws /\ ~locals'.use_new_model

\* the two epsilon-greedy routers: the app serving /predict/bandit, and the
\* simulation
NextBandit ==
    \/ BanditExploreNew
    \/ BanditExploreCurrent
    \/ BanditExploit
    \/ Restart
    \/ NextSim

\* the explore branch of either router draws each of its outcomes again and
\* again, if it is reached again and again
FairSpec ==
    /\ InitApp \/ InitSim
    /\ [][NextBandit]_vars
    /\ SF_vars(BanditExploreNew /\ locals'.branch = "explore")
    /\ SF_vars(BanditExploreCurrent /\ locals'.branch = "explore")
    /\ SF_vars(SimExploreA)
    /\ SF_vars(SimExploreB)

\* the runs of either router in which the explore branch is never taken: every
\* random.random() drawn for it is at least epsilon (the app's other routes
\* are served, and the process restarts, as in any run)
NextExploit ==
    \/ BanditExploit
    \/ read_root
    \/ predict_single
    \/ predict_silent
    \/ predict_canary
    \/ Restart
    \/ SimCall
    \/ SimExploit
    \/ SimReport

ExploitSpec ==
    /\ InitApp \/ InitSim
    /\ [][NextExploit]_vars

\* requests to /predict/canary keep arriving
CanaryFairSpec == Spec /\ WF_vars(predict_canary)

(* ------------- Ray introduction notebook: the Counter actor ------------ *)
(* The driver submits counter.increment.remote() calls without waiting and  *)
(* then blocks in ray.get.  Ray queues the calls of one caller in           *)
(* submission order and, Counter being a plain (synchronous) actor, runs    *)
(* one method call at a time.                                               *)

\* increment calls the driver submits (5 in the notebook)
MaxCalls == 5

Min(a, b) == IF a <= b THEN a ELSE b

InitCounter ==
    /\ tasks = IdleTasks
    /\ tune = IdleTune
    /\ yaml = IdleYaml
    /\ running = "counter"
    /\ AppAtStart
    /\ sim = IdleSim
    /\ dist_rf = IdleTraining
    /\ \E k \in 1 .. MaxCalls :
          counter = [IdleCounter EXCEPT !.pc = "submit", !.calls = k,
                                        !.results = [i \in 1 .. k |-> 0]]

\* mutant: a threaded actor (max_concurrency > 1) takes a call while others run
ActorFreeThreaded(executing) == Cardinality(executing) < 2

\* @ray.remote class Counter: the actor takes the next call when none is running
ActorFree(executing) == executing = {}

\* counter.increment.remote(): the call is queued, a reference returned
counter_submit ==
    /\ running = "counter"
    /\ counter.pc = "submit"
    /\ counter.submitted < counter.calls
    /\ counter' = [counter EXCEPT
                     !.submitted = @ + 1,
                     !.mailbox = Append(@, counter.submitted + 1)]
    /\ UNCHANGED <<running, yaml, tune, tasks, appVars, concVars, sim, dist_rf>>

\* the actor takes the oldest queued call
actor_take ==
    /\ running = "counter"
    /\ counter.mailbox # <<>>
    /\ ActorFree(counter.executing)
    /\ counter' = [counter EXCEPT
                     !.mailbox = Tail(@),
                     !.executing = @ \cup {[id |-> Head(counter.mailbox),
                                            pc |-> "read", reg |-> 0]}]
    /\ UNCHANGED <<running, yaml, tune, tasks, appVars, concVars, sim, dist_rf>>

\* self.value += 1: the read
increment_read ==
    /\ running = "counter"
    /\ \E c \in counter.executing :
          /\ c.pc = "read"
          /\ counter' = [counter EXCEPT
                           !.executing = (@ \ {c}) \cup
                               {[c EXCEPT !.pc = "write", !.reg = counter.value]}]
    /\ UNCHANGED <<running, yaml, tune, tasks, appVars, concVars, sim, dist_rf>>

\* self.value += 1: the write
increment_write ==
    /\ running = "counter"
    /\ \E c \in counter.executing :
          /\ c.pc = "write"
          /\ counter' = [counter EXCEPT
                           !.value = c.reg + 1,
                           !.executing = (@ \ {c}) \cup
                               {[c EXCEPT !.pc = "return", !.reg = 0]}]
    /\ UNCHANGED <<running, yaml, tune, tasks, appVars, concVars, sim, dist_rf>>

\* return self.value: the call's result is stored under its reference
increment_return ==
    /\ running = "counter"
    /\ \E c \in counter.executing :
          /\ c.pc = "return"
          /\ counter' = [counter EXCEPT
                           !.results[c.id] = counter.value,
                           !.executing = @ \ {c}]
    /\ UNCHANGED <<running, yaml, tune, tasks, appVars, concVars, sim, dist_rf>>

\* ray.get([...]): returns the results in the order of the references, once
\* every one of them is there
counter_get ==
    /\ running = "counter"
    /\ counter.pc = "submit"
    /\ counter.submitted = counter.calls
    /\ \A i \in 1 .. counter.calls : counter.results[i] # 0
    /\ counter' = [counter EXCEPT !.pc = "done", !.got = counter.results]
    /\ UNCHANGED <<running, yaml, tune, tasks, appVars, concVars, sim, dist_rf>>

NextCounter ==
    \/ counter_submit
    \/ actor_take
    \/ increment_read
    \/ increment_write
    \/ increment_return
    \/ counter_get

CounterSpec == InitCounter /\ [][NextCounter]_vars

(* -------- Ray pipeline notebook: distributed model training ------------ *)
(* Rows of X_train are numbered 0 .. rows-1.  chunk_size is                 *)
(* len(X_train) // cpus, taken as an integer.  The actor runs the queued    *)
(* fit calls one at a time in submission order.                             *)

\* len(X_train)
MaxRows == 6
\* ray.available_resources()['CPU']
MaxCpus == 4

InitTraining ==
    /\ tasks = IdleTasks
    /\ tune = IdleTune
    /\ yaml = IdleYaml
    /\ running = "training"
    /\ AppAtStart
    /\ sim = IdleSim
    /\ counter = IdleCounter
    /\ \E n \in 1 .. MaxRows, cpus \in 1 .. MaxCpus :
          dist_rf = [IdleTraining EXCEPT
                       \* range(0, len(X_train), 0) raises ValueError
                       !.pc = IF n \div cpus = 0 THEN "ValueError" ELSE "submit",
                       !.rows = n,
                       !.chunk_size = n \div cpus]

\* self.model.fit(X, y): RandomForestClassifier.fit (warm_start is not set)
\* builds a new forest from X, y alone; what was fitted before is dropped
Fit(fitted_on, chunk) == chunk

\* one turn of the loop: dist_rf.fit.remote(X_chunk, y_chunk) is queued
train_submit ==
    /\ running = "training"
    /\ dist_rf.pc = "submit"
    /\ dist_rf.i < dist_rf.rows
    /\ dist_rf' = [dist_rf EXCEPT
                     !.i = @ + dist_rf.chunk_size,
                     !.mailbox = Append(@,
                         dist_rf.i ..
                         (Min(dist_rf.i + dist_rf.chunk_size, dist_rf.rows) - 1))]
    /\ UNCHANGED <<running, yaml, tune, tasks, appVars, concVars, sim, counter>>

\* the actor runs the oldest queued fit call
actor_fit ==
    /\ running = "training"
    /\ dist_rf.mailbox # <<>>
    /\ dist_rf' = [dist_rf EXCEPT
                     !.mailbox = Tail(@),
                     !.finished = @ + 1,
                     !.fitted_on = Fit(@, Head(dist_rf.mailbox))]
    /\ UNCHANGED <<running, yaml, tune, tasks, appVars, concVars, sim, counter>>

\* ray.get(train_tasks): returns once every fit task has finished
train_get ==
    /\ running = "training"
    /\ dist_rf.pc = "submit"
    /\ dist_rf.i >= dist_rf.rows
    /\ dist_rf.mailbox = <<>>
    /\ dist_rf' = [dist_rf EXCEPT !.pc = "done"]
    /\ UNCHANGED <<running, yaml, tune, tasks, appVars, concVars, sim, counter>>

NextTraining ==
    \/ train_submit
    \/ actor_fit
    \/ train_get

TrainingSpec == InitTraining /\ [][NextTraining]_vars

(* ---- Ray introduction notebook: slow_function tasks in parallel ------- *)
(* The list comprehension submits slow_function.remote(i) for i = 0, 1, ... *)
(* and keeps the object references in that order.  Ray starts a submitted   *)
(* task when a worker is free, in no promised order, and tasks finish in    *)
(* any order; a finished task's return value is stored under its reference. *)
(* Reference k (1, 2, ...) is that of the call with argument k - 1.         *)

\* range(n): tasks submitted (4 in the notebook)
MaxTasks == 4
\* CPUs Ray runs tasks on
MaxWorkers == 3

\* return i * i
slow_function(i) == i * i

InitTasks ==
    /\ tune = IdleTune
    /\ yaml = IdleYaml
    /\ running = "tasks"
    /\ AppAtStart
    /\ sim = IdleSim
    /\ counter = IdleCounter
    /\ dist_rf = IdleTraining
    /\ \E n \in 0 .. MaxTasks, w \in 1 .. MaxWorkers :
          tasks = [IdleTasks EXCEPT !.pc = "submit", !.n = n, !.workers = w]

\* mutant: the values come back in the order the tasks finished
GetAsCompleted(refs, store, finished) ==
    [j \in 1 .. Len(refs) |-> store[finished[j]]]

\* ray.get(refs): the value stored under each reference, in the order of refs
Get(refs, store, finished) == [j \in 1 .. Len(refs) |-> store[refs[j]]]

\* one turn of the list comprehension: slow_function.remote(i)
task_submit ==
    /\ running = "tasks"
    /\ tasks.pc = "submit"
    /\ Len(tasks.refs) < tasks.n
    /\ tasks' = [tasks EXCEPT !.refs = Append(@, Len(tasks.refs) + 1)]
    /\ UNCHANGED <<running, appVars, concVars, sim, rayVars, tune, yaml>>

\* a free worker takes one of the submitted tasks
task_start ==
    /\ running = "tasks"
    /\ Cardinality(tasks.executing) < tasks.workers
    /\ \E k \in 1 .. Len(tasks.refs) :
          /\ k \notin tasks.executing
          /\ k \notin DOMAIN tasks.store
          /\ tasks' = [tasks EXCEPT !.executing = @ \cup {k}]
    /\ UNCHANGED <<running, appVars, concVars, sim, rayVars, tune, yaml>>

\* time.sleep(1); return i * i: the value is stored under the task's reference
task_finish ==
    /\ running = "tasks"
    /\ \E k \in tasks.executing :
          tasks' = [tasks EXCEPT
                      !.executing = @ \ {k},
                      !.finished = Append(@, k),
                      !.store = [r \in DOMAIN @ \cup {k} |->
                                    IF r = k THEN slow_function(k - 1) ELSE @[r]]]
    /\ UNCHANGED <<running, appVars, concVars, sim, rayVars, tune, yaml>>

\* results = ray.get([...]): blocks until every reference has its value
tasks_get ==
    /\ running = "tasks"
    /\ tasks.pc = "submit"
    /\ Len(tasks.refs) = tasks.n
    /\ \A j \in 1 .. Len(tasks.refs) : tasks.refs[j] \in DOMAIN tasks.store
    /\ tasks' = [tasks EXCEPT
                   !.pc = "done",
                   !.results = Get(tasks.refs, tasks.store, tasks.finished)]
    /\ UNCHANGED <<running, appVars, concVars, sim, rayVars, tune, yaml>>

NextTasks ==
    \/ task_submit
    \/ task_start
    \/ task_finish
    \/ tasks_get

TasksSpec == InitTasks /\ [][NextTasks]_vars

(* ---------- Ray pipeline notebook: tune.run(objective, ...) ------------ *)
(* Tune runs each trial in an actor that holds the trial's CPUs from its    *)
(* start until the trial ends; an actor blocked in ray.get keeps its CPUs.  *)
(* The objective submits one cross_validate_fold task per fold (a task      *)
(* needs one CPU, the default of @ray.remote) and blocks in ray.get until   *)
(* all of them have finished.                                               *)

\* ray.init(num_cpus=8)
TuneCpus == 8
\* resources_per_trial={"cpu": 2}
CpusPerTrial == 2
\* n_splits=5
FoldsPerTrial == 5
\* num_samples (20 in the notebook)
MaxTrials == 4

PendingTrial == [pc |-> "pending", queued |-> 0, running |-> 0, finished |-> 0]

InitTune ==
    /\ tasks = IdleTasks
    /\ yaml = IdleYaml
    /\ running = "tune"
    /\ AppAtStart
    /\ sim = IdleSim
    /\ counter = IdleCounter
    /\ dist_rf = IdleTraining
    /\ \E num_samples \in 1 .. MaxTrials :
          tune = [pc |-> "run", trials |-> [i \in 1 .. num_samples |-> PendingTrial]]

RECURSIVE SumOver(_, _)
SumOver(f, n) == IF n = 0 THEN 0 ELSE f[n] + SumOver(f, n - 1)

\* CPUs held by a trial: its actor's, and one for each of its running tasks
CpusHeld(trial) ==
    (IF trial.pc \in {"started", "blocked"} THEN CpusPerTrial ELSE 0)
        + trial.running

FreeCpus ==
    TuneCpus - SumOver([i \in DOMAIN tune.trials |-> CpusHeld(tune.trials[i])],
                       Len(tune.trials))

\* Tune starts the next pending trial when the trial's CPUs are free
trial_start(i) ==
    /\ running = "tune"
    /\ i \in DOMAIN tune.trials
    /\ tune.pc = "run"
    /\ tune.trials[i].pc = "pending"
    /\ \A j \in 1 .. (i - 1) : tune.trials[j].pc # "pending"
    /\ FreeCpus >= CpusPerTrial
    /\ tune' = [tune EXCEPT !.trials[i].pc = "started"]
    /\ UNCHANGED <<running, appVars, concVars, sim, rayVars, yaml, tasks>>

\* objective -> distributed_cross_validation: the loop submits the fold
\* tasks, then ray.get(tasks) blocks
objective_submit(i) ==
    /\ running = "tune"
    /\ i \in DOMAIN tune.trials
    /\ tune.trials[i].pc = "started"
    /\ tune' = [tune EXCEPT !.trials[i].pc = "blocked",
                            !.trials[i].queued = FoldsPerTrial]
    /\ UNCHANGED <<running, appVars, concVars, sim, rayVars, yaml, tasks>>

\* a queued cross_validate_fold task is given a CPU
fold_start(i) ==
    /\ running = "tune"
    /\ i \in DOMAIN tune.trials
    /\ tune.trials[i].queued > 0
    /\ FreeCpus >= 1
    /\ tune' = [tune EXCEPT !.trials[i].queued = @ - 1,
                            !.trials[i].running = @ + 1]
    /\ UNCHANGED <<running, appVars, concVars, sim, rayVars, yaml, tasks>>

\* a cross_validate_fold task returns its accuracy and frees its CPU
fold_finish(i) ==
    /\ running = "tune"
    /\ i \in DOMAIN tune.trials
    /\ tune.trials[i].running > 0
    /\ tune' = [tune EXCEPT !.trials[i].running = @ - 1,
                            !.trials[i].finished = @ + 1]
    /\ UNCHANGED <<running, appVars, concVars, sim, rayVars, yaml, tasks>>

\* ray.get returns the scores; tune.report(mean_accuracy=score); the trial
\* ends and its actor's CPUs are freed
trial_report(i) ==
    /\ running = "tune"
    /\ i \in DOMAIN tune.trials
    /\ tune.trials[i].pc = "blocked"
    /\ tune.trials[i].finished = FoldsPerTrial
    /\ tune' = [tune EXCEPT !.trials[i].pc = "reported"]
    /\ UNCHANGED <<running, appVars, concVars, sim, rayVars, yaml, tasks>>

\* tune.run returns the analysis once every trial has ended
tune_return ==
    /\ running = "tune"
    /\ tune.pc = "run"
    /\ \A i \in DOMAIN tune.trials : tune.trials[i].pc = "reported"
    /\ tune' = [tune EXCEPT !.pc = "done"]
    /\ UNCHANGED <<running, appVars, concVars, sim, rayVars, yaml, tasks>>

NextTune ==
    \/ \E i \in 1 .. MaxTrials :
          \/ trial_start(i)
          \/ objective_submit(i)
          \/ fold_start(i)
          \/ fold_finish(i)
          \/ trial_report(i)
    \/ tune_return

\* whatever can run does run: Tune starts trials, Ray schedules tasks when a
\* CPU is free, every task that runs finishes
TuneFairSpec ==
    /\ InitTune
    /\ [][NextTune]_vars
    /\ WF_vars(NextTune)

(* ------------- lesson 9: loading config.yaml with PyYAML --------------- *)
(* A document is its sequence of lines; a line is blank, or "key: scalar",  *)
(* or "key:" opening a nested mapping.  A scalar is written double-quoted   *)
(* or plain; PyYAML resolves a plain scalar by its form (integer, float).   *)
(* The loaded dict of dicts is kept as a function from key paths to the     *)
(* value found there.                                                       *)

\* values of max_depth tried in the hands-on experiment ("change a value")
MaxDepthTried == 5

Blank == [indent |-> 0, key |-> "", style |-> "none", text |-> "", num |-> 0]
Opens(indent, key) ==
    [indent |-> indent, key |-> key, style |-> "none", text |-> "", num |-> 0]
Quoted(indent, key, text) ==
    [indent |-> indent, key |-> key, style |-> "double-quoted", text |-> text,
     num |-> 0]
PlainInt(indent, key, n) ==
    [indent |-> indent, key |-> key, style |-> "plain-int", text |-> "", num |-> n]
PlainFloat(indent, key, text) ==
    [indent |-> indent, key |-> key, style |-> "plain-float", text |-> text,
     num |-> 0]

\* cheat_sheet.MD "Example Configuration File"; exercise.MD step 8 is the same
ExampleConfig ==
    << Quoted(0, "project_name", "my_ml_project"),
       Blank,
       Opens(0, "experiment"),
       Quoted(2, "name", "baseline_model"),
       Quoted(2, "type", "classification"),
       Blank,
       Opens(0, "data"),
       Quoted(2, "source", "data/iris.csv"),
       PlainFloat(2, "validation_split", "0.2"),
       PlainFloat(2, "test_split", "0.1"),
       Blank,
       Opens(0, "model"),
       Quoted(2, "type", "random_forest"),
       Opens(2, "hyperparameters"),
       PlainInt(4, "n_estimators", 100),
       PlainInt(4, "max_depth", 5),
       PlainInt(4, "random_state", 42),
       Blank,
       Opens(0, "output"),
       Quoted(2, "model_path", "models/"),
       Quoted(2, "logs_path", "logs/") >>

\* cheat_sheet.MD "Hands-On"
HandsOnConfig(max_depth) ==
    << Quoted(0, "project_name", "my_first_project"),
       Blank,
       Opens(0, "data"),
       Quoted(2, "source", "data/sample.csv"),
       PlainFloat(2, "validation_split", "0.3"),
       Blank,
       Opens(0, "model"),
       Quoted(2, "type", "decision_tree"),
       Opens(2, "hyperparameters"),
       PlainInt(4, "max_depth", max_depth),
       Blank,
       Opens(0, "output"),
       Quoted(2, "model_path", "output/models/") >>

ConfigFiles ==
    {ExampleConfig} \cup {HandsOnConfig(d) : d \in 1 .. MaxDepthTried}

\* Python values: str, int, float, dict; and the errors indexing can raise
PyValue(tag, text, num) == [tag |-> tag, text |-> text, num |-> num]
PyDict == PyValue("dict", "", 0)
KeyError(key) == PyValue("KeyError", key, 0)
TypeError == PyValue("TypeError", "string indices must be integers", 0)

\* the scalar a line carries, as the loader constructs it: the quotes are not
\* part of a string, a plain scalar becomes the number its form denotes
Resolve(line) ==
    CASE line.style = "double-quoted" -> PyValue("str", line.text, 0)
      [] line.style = "plain-int" -> PyValue("int", "", line.num)
      [] line.style = "plain-float" -> PyValue("float", line.text, 0)

\* mutant: a nested mapping is never closed
EnclosingNeverClosed(stack, indent) == stack

\* the open block mappings that still enclose a line indented by indent
RECURSIVE Enclosing(_, _)
Enclosing(stack, indent) ==
    IF stack # <<>> /\ stack[Len(stack)].indent >= indent
    THEN Enclosing(SubSeq(stack, 1, Len(stack) - 1), indent)
    ELSE stack

KeysOf(stack) == [i \in 1 .. Len(stack) |-> stack[i].key]

Put(cfg, path, value) ==
    [p \in DOMAIN cfg \cup {path} |-> IF p = path THEN value ELSE cfg[p]]

\* yaml.safe_load(file), from line i on
RECURSIVE LoadFrom(_, _, _, _)
LoadFrom(file, i, stack, cfg) ==
    IF i > Len(file) THEN cfg
    ELSE IF file[i].key = "" THEN LoadFrom(file, i + 1, stack, cfg)
    ELSE LET open == Enclosing(stack, file[i].indent)
             path == Append(KeysOf(open), file[i].key)
         IN  IF file[i].style = "none"
             THEN LoadFrom(file, i + 1,
                           Append(open, [indent |-> file[i].indent,
                                         key |-> file[i].key]),
                           Put(cfg, path, PyDict))
             ELSE LoadFrom(file, i + 1, open, Put(cfg, path, Resolve(file[i])))

safe_load(file) == LoadFrom(file, 1, <<>>, <<>>)

\* config[path[1]][path[2]]..., from the i-th subscript on
RECURSIVE IndexFrom(_, _, _)
IndexFrom(cfg, path, i) ==
    IF i > Len(path) THEN cfg[path]
    ELSE IF i > 1 /\ cfg[SubSeq(path, 1, i - 1)].tag # "dict" THEN TypeError
    ELSE IF SubSeq(path, 1, i) \notin DOMAIN cfg THEN KeyError(path[i])
    ELSE IndexFrom(cfg, path, i + 1)

Index(cfg, path) == IndexFrom(cfg, path, 1)

\* the subscripts a script tries: those the example documents make
\* meaningful, one under a string, one that no document has
Subscripts ==
    DOMAIN safe_load(ExampleConfig)
        \cup {<<"project_name", "name">>, <<"output", "plots_path">>}

InitYaml ==
    /\ tasks = IdleTasks
    /\ tune = IdleTune
    /\ running = "yaml"
    /\ AppAtStart
    /\ sim = IdleSim
    /\ counter = IdleCounter
    /\ dist_rf = IdleTraining
    /\ \E file \in ConfigFiles :
          yaml = [IdleYaml EXCEPT !.pc = "open", !.file = file]

\* with open("config.yaml", 'r') as file: config = yaml.safe_load(file)
yaml_load ==
    /\ running = "yaml"
    /\ yaml.pc = "open"
    /\ yaml' = [yaml EXCEPT !.pc = "loaded", !.config = safe_load(yaml.file)]
    /\ UNCHANGED <<running, appVars, concVars, sim, rayVars, tune, tasks>>

\* print(config[...][...]); an uncaught KeyError or TypeError ends the script
yaml_print ==
    /\ running = "yaml"
    /\ yaml.pc \in {"loaded", "printed"}
    /\ \E path \in Subscripts :
          LET value == Index(yaml.config, path) IN
          yaml' = [yaml EXCEPT
                     !.pc = IF value.tag \in {"KeyError", "TypeError"}
                            THEN value.tag ELSE "printed",
                     !.path = path,
                     !.printed = value]
    /\ UNCHANGED <<running, appVars, concVars, sim, rayVars, tune, tasks>>

NextYaml ==
    \/ yaml_load
    \/ yaml_print

YamlSpec == InitYaml /\ [][NextYaml]_vars

(* ============================== claims ================================= *)

PredictRoutes == {"single", "silent", "canary", "bandit"}

\* C1: silent deployment: the response to a /predict/silent request is the
\* same whatever the new model does on that request (response and twin are two
\* handlings of one request that differ only in the new model's behaviour).
C1_SilentResponseIgnoresNewModel ==
    request.route = "silent" => response = twin_response

\* the rate of (c1, n1) is not lower than the rate of (c2, n2), a rate being
\* correct/count, and 0 when the count is 0
NotLowerRate(c1, n1, c2, n2) ==
    IF n2 = 0 \/ c2 = 0 THEN TRUE
    ELSE IF n1 = 0 THEN FALSE
    ELSE c1 * n2 >= c2 * n1

\* C3: whenever /predict/bandit takes the exploit branch, the recorded success
\* rate of the model it chooses is not lower than the other model's rate, the
\* rates being those of the counters the request found.
C3_ExploitChoosesHigherRate ==
    [][(request'.route = "bandit" /\ locals'.branch = "exploit") =>
          IF locals'.use_new_model
          THEN NotLowerRate(new_model_correct, new_model_count,
                            current_model_correct, current_model_count)
          ELSE NotLowerRate(current_model_correct, current_model_count,
                            new_model_correct, new_model_count)]_vars

\* C3 witness: an exploit request served by the current model although the new
\* model has recorded successes (the current model's rate was strictly higher)
C3_Witness ==
    /\ request.route = "bandit"
    /\ locals.branch = "exploit"
    /\ ~locals.use_new_model
    /\ response.status = 200
    /\ new_model_correct > 0
    /\ new_model_count > new_model_correct

\* the message of the exception raised while handling the last request ("" if
\* none): the conversion's, else that of the first consulted model that raised
RaisedMessage ==
    IF ConvertRaises(request.features) THEN ReshapeError
    ELSE IF current_model \in locals.consulted /\ request.cur_out.exc # ""
    THEN request.cur_out.exc
    ELSE IF new_model \in locals.consulted /\ request.new_out.exc # ""
    THEN request.new_out.exc
    ELSE ""

\* C6: a request to a prediction route that raises anything gets HTTP 400 with
\* the exception's message as detail; one that raises nothing gets a success
\* response with a 'prediction' field; there is no other outcome.
C6_CatchAndReport ==
    request.route \in PredictRoutes =>
        IF RaisedMessage # ""
        THEN /\ response.status = 400
             /\ response.detail = RaisedMessage
             /\ "prediction" \notin response.fields
        ELSE /\ response.status = 200
             /\ "prediction" \in response.fields
             /\ response.detail = ""

\* C6 witness: the new model raises in /predict/bandit and the client gets 400
C6_Witness ==
    /\ request.route = "bandit"
    /\ RaisedMessage = NotFiniteError
    /\ response.status = 400

\* C7: every successful /predict/single response is the new model's
\* prediction, and the route never consults the current model.
C7_SingleServesNewModel ==
    request.route = "single" =>
        /\ Load(CURRENT_FILE) \notin locals.consulted
        /\ response.status = 200 =>
              /\ request.new_out.exc = ""
              /\ response.prediction = request.new_out.label
              /\ locals.consulted = {Load(NEW_FILE)}

\* C7 witness: a successful /predict/single, after bandit requests were
\* served, on a request where the two models disagree
C7_Witness ==
    /\ request.route = "single"
    /\ response.status = 200
    /\ response.prediction = 1
    /\ request.cur_out.exc = "" /\ request.cur_out.label = 0
    /\ current_model_count > 0
    /\ new_model_count > 0

AllCountersZero ==
    /\ current_model_correct = 0
    /\ new_model_correct = 0
    /\ current_model_count = 0
    /\ new_model_count = 0

NoCounterDecreases ==
    /\ current_model_correct' >= current_model_correct
    /\ new_model_correct' >= new_model_correct
    /\ current_model_count' >= current_model_count
    /\ new_model_count' >= new_model_count

\* C8 as stated: the four bandit counters are 0 whenever the process has just
\* started (the first start and every restart), and no step of a request
\* decreases one.  (Only a restart lowers "started".)
C8_NoRequestDecreasesCounter ==
    /\ [](started = 0 => AllCountersZero)
    /\ [][started' >= started => NoCounterDecreases]_vars

\* C8 amended: the four bandit counters are 0 whenever the process has just
\* started (the first start and every restart), and no step of a request
\* that has had no other request in flight beside it decreases one.
C8_CountersNotPersisted ==
    /\ [](started = 0 => AllCountersZero)
    /\ [][\A t \in Threads :
            (started' >= started /\ th[t].alone /\ th'[t] # th[t])
                => NoCounterDecreases]_vars

\* C8 witness: the process has restarted after counting bandit requests
C8_Witness ==
    /\ lost
    /\ started = 0
    /\ AllCountersZero

\* C5: the share of /predict/canary traffic sent to the new model starts
\* small and increases over time.
C5_CanaryShareIncreases ==
    canary_percentage = CanaryPct /\ <>(canary_percentage > CanaryPct)

SimRoundPlayed == (SimExploreA \/ SimExploreB \/ SimExploit) /\ sim.epsilon > 0
SimSelectsA == SimRoundPlayed /\ sim'.chosen_model = "A"
SimSelectsB == SimRoundPlayed /\ sim'.chosen_model = "B"

\* C4: with epsilon > 0 the explore branch can select either model wherever a
\* request (a round) can be handled, and under fair draws each model is
\* selected again and again for as long as requests (rounds) keep reaching the
\* draw, in /predict/bandit and in multi_armed_bandit alike.
C4_BothModelsKeepBeingSelected ==
    /\ [](running = "app" /\ current_model_count + new_model_count < MaxRequests
            => /\ epsilon > 0
               /\ ENABLED (BanditExploreNew /\ locals'.branch = "explore"
                             /\ locals'.use_new_model)
               /\ ENABLED (BanditExploreCurrent /\ locals'.branch = "explore"
                             /\ ~locals'.use_new_model))
    /\ [](sim.pc = "loop" /\ sim.round < sim.n_rounds /\ sim.epsilon > 0
            => /\ ENABLED (SimExploreA /\ sim'.chosen_model = "A")
               /\ ENABLED (SimExploreB /\ sim'.chosen_model = "B"))
    /\ ([]<><<BanditDraws>>_vars
            => ([]<><<BanditSelectsNew>>_vars /\ []<><<BanditSelectsCurrent>>_vars))
    /\ ([]<><<SimRoundPlayed>>_vars
            => ([]<><<SimSelectsA>>_vars /\ []<><<SimSelectsB>>_vars))

\* C4 witness (app): an explore draw has selected the current model although
\* the new model's recorded rate was the higher one
C4_Witness ==
    /\ request.route = "bandit"
    /\ locals.branch = "explore"
    /\ ~locals.use_new_model
    /\ response.status = 200
    /\ new_model_correct > 0
    /\ current_model_correct = 0

\* C2: a /predict/bandit request's count update is an unprotected
\* read-then-write: the write stores the value read plus one whatever other
\* requests have stored in between (so concurrent requests can lose an
\* increment: see the witness).
C2_UnprotectedReadThenWrite ==
    [][\A t \in Threads :
          (th[t].pc = "count_write" /\ th'[t].pc = "accuracy") =>
              IF th[t].use_new_model
              THEN new_model_count' = th[t].reg + 1
              ELSE current_model_count' = th[t].reg + 1]_vars

\* C2 witness: two requests were received, both completed successfully, and
\* the two counts add up to less than 2
C2_Witness ==
    /\ started = 2
    /\ completed = 2
    /\ \A t \in Threads : th[t].pc = "idle"
    /\ current_model_count + new_model_count < 2

\* C9: increment calls submitted to one Counter actor without waiting are
\* applied one at a time with no lost update: every result that is ready is
\* the call's position in submission order, and once ray.get has returned the
\* values are exactly 1, 2, ..., k and the actor's value is k.
C9_CounterAppliesCallsInOrder ==
    /\ \A i \in 1 .. counter.calls :
          counter.results[i] # 0 => counter.results[i] = i
    /\ counter.pc = "done" =>
          /\ counter.got = [i \in 1 .. counter.calls |-> i]
          /\ counter.value = counter.calls

\* C9 witness: the notebook's run: five calls, all collected
C9_Witness ==
    /\ counter.pc = "done"
    /\ counter.calls = 5
    /\ counter.got = <<1, 2, 3, 4, 5>>

PathWritten(file, i) ==
    LET above == {j \in 1 .. (i - 1) :
                     /\ file[j].key # ""
                     /\ file[j].indent < file[i].indent
                     /\ \A k \in (j + 1) .. (i - 1) :
                           file[k].key = "" \/ file[k].indent > file[j].indent}
        RECURSIVE Ordered(_)
        Ordered(js) ==
            IF js = {} THEN <<>>
            ELSE LET j == CHOOSE x \in js : \A y \in js : x <= y
                 IN  <<file[j].key>> \o Ordered(js \ {j})
    IN  Append(Ordered(above), file[i].key)

\* the value a line writes for its key
ValueWritten(line) ==
    IF line.style = "double-quoted" THEN [tag |-> "str", text |-> line.text, num |-> 0]
    ELSE IF line.style = "plain-int" THEN [tag |-> "int", text |-> "", num |-> line.num]
    ELSE IF line.style = "plain-float" THEN [tag |-> "float", text |-> line.text, num |-> 0]
    ELSE [tag |-> "dict", text |-> "", num |-> 0]

\* C11: the loaded configuration is a nested mapping: every key written in
\* the document is found under the keys it is nested under, with the value
\* written; config['experiment']['name'] is 'baseline_model' for the example
\* configuration and config['project_name'] is 'my_first_project' for the
\* hands-on one; and what a script prints for a written key path is the value
\* written there.
C11_ConfigKeysRetrievable ==
    yaml.pc \in {"loaded", "printed", "KeyError", "TypeError"} =>
        /\ \A i \in 1 .. Len(yaml.file) :
              yaml.file[i].key # "" =>
                  Index(yaml.config, PathWritten(yaml.file, i))
                      = ValueWritten(yaml.file[i])
        /\ yaml.file = ExampleConfig =>
              Index(yaml.config, <<"experiment", "name">>)
                  = [tag |-> "str", text |-> "baseline_model", num |-> 0]
        /\ yaml.file \in {HandsOnConfig(d) : d \in 1 .. MaxDepthTried} =>
              Index(yaml.config, <<"project_name">>)
                  = [tag |-> "str", text |-> "my_first_project", num |-> 0]
        /\ \A i \in 1 .. Len(yaml.file) :
              (yaml.pc = "printed" /\ yaml.file[i].key # ""
                 /\ yaml.path = PathWritten(yaml.file, i))
                  => yaml.printed = ValueWritten(yaml.file[i])

\* C11 witness: the example configuration is loaded and the script has printed
\* config['model']['hyperparameters']['max_depth'], the integer 5
C11_Witness ==
    /\ yaml.pc = "printed"
    /\ yaml.file = ExampleConfig
    /\ yaml.path = <<"model", "hyperparameters", "max_depth">>
    /\ yaml.printed = [tag |-> "int", text |-> "", num |-> 5]


\* C12: a /predict/canary request whose features convert is served by the new
\* model exactly when its draw is below canary_percentage (0.1) and by the
\* current model otherwise, and a successful response carries the served
\* model's prediction and names that model, 'new' or 'current', in model_used.
C12_CanaryRoutingRule ==
    (request.route = "canary" /\ request.features = "flat") =>
        LET below == locals.draw * 100 < CanaryPct * DrawScale IN
        /\ canary_percentage = CanaryPct
        /\ locals.consulted = IF below THEN {Load(NEW_FILE)}
                              ELSE {Load(CURRENT_FILE)}
        /\ response.status = 200 =>
              /\ response.model_used = IF below THEN "new" ELSE "current"
              /\ response.fields = {"prediction", "model_used"}
              /\ response.prediction = IF below THEN request.new_out.label
                                       ELSE request.cur_out.label

\* C12 witness: the draw is the smallest one that is not below
\* canary_percentage, the models disagree, and the current model's label is
\* returned under model_used 'current'
C12_Witness ==
    /\ request.route = "canary"
    /\ response.status = 200
    /\ locals.draw * 100 >= CanaryPct * DrawScale
    /\ (locals.draw - 1) * 100 < CanaryPct * DrawScale
    /\ request.new_out.label = 1
    /\ request.new_out.exc = ""
    /\ response.prediction = 0
    /\ response.model_used = "current"

C14_CountsSumToSuccesses ==
    current_model_count + new_model_count = completed

\* C14 witness: three bandit requests have succeeded, both models among them,
\* and the last bandit request failed with 400 in the chosen model's predict
C14_Witness ==
    /\ request.route = "bandit"
    /\ response.status = 400
    /\ locals.consulted # {}
    /\ completed = 3
    /\ current_model_count > 0
    /\ new_model_count > 0

\* C15 as stated: in every reachable state, under any interleaving of the
\* requests' reads and writes, 0 <= correct <= count for each model.
C15_CorrectWithinCount ==
    /\ 0 <= current_model_correct
    /\ current_model_correct <= current_model_count
    /\ 0 <= new_model_correct
    /\ new_model_correct <= new_model_count

\* C15 amended: under any interleaving each of the four counters is at least
\* 0; correct <= count holds for each model as long as no request has arrived
\* while another was in flight.
C15_CorrectWithinCountUnlessOverlapped ==
    /\ \A c \in {current_model_correct, current_model_count,
                 new_model_correct, new_model_count} : 0 <= c
    /\ ~overlapped =>
          /\ current_model_correct <= current_model_count
          /\ new_model_correct <= new_model_count

\* C15 witness: three requests handled one after another, all served by one
\* model and all counted correct: correct = count = 3
C15_Witness ==
    /\ ~overlapped
    /\ completed = 3
    /\ \/ current_model_correct = 3 /\ current_model_count = 3
       \/ new_model_correct = 3 /\ new_model_count = 3

\* the /predict/bandit request handled by this step fails in the conversion of
\* its features, or in the predict call of the model chosen for it
BanditFails ==
    /\ request'.route = "bandit"
    /\ \/ request'.features = "empty"
       \/ /\ locals'.branch \in {"explore", "exploit"}
          /\ IF locals'.use_new_model THEN request'.new_out.exc # ""
             ELSE request'.cur_out.exc # ""

\* C16: a /predict/bandit request that fails during feature conversion or
\* during the chosen model's prediction is answered with HTTP 400 and leaves
\* all four counters as they were before it.
C16_FailedBanditLeavesCounters ==
    [][BanditFails =>
          /\ response'.status = 400
          /\ current_model_correct' = current_model_correct
          /\ new_model_correct' = new_model_correct
          /\ current_model_count' = current_model_count
          /\ new_model_count' = new_model_count]_vars

\* C16 witness: a request with an empty feature list answered 400 with the
\* reshape error, after two counted requests of which one was correct
C16_Witness ==
    /\ request.route = "bandit"
    /\ request.features = "empty"
    /\ response.status = 400
    /\ response.detail = ReshapeError
    /\ completed = 2
    /\ new_model_count = 2
    /\ new_model_correct = 1

\* C17: along runs in which the explore branch is never taken, starting from
\* all counters at 0, the current model's counters stay at 0, the new model's
\* rate is never below the current model's, and no /predict/bandit request is
\* served by the current model; likewise multi_armed_bandit never selects
\* model B.
C17_PureExploitationStarves ==
    /\ current_model_count = 0
    /\ current_model_correct = 0
    /\ NotLowerRate(new_model_correct, new_model_count,
                    current_model_correct, current_model_count)
    /\ (request.route = "bandit" /\ locals.branch # "none") =>
          /\ locals.branch = "exploit"
          /\ locals.use_new_model
          /\ locals.consulted = {Load(NEW_FILE)}
          /\ response.model_used # "current"
    /\ sim.model_b_count = 0
    /\ sim.model_b_correct = 0
    /\ sim.chosen_model # "B"

\* C17 witness (app): four requests served, all by the new model, none of
\* them counted correct: the rates are tied at 0 and the tie goes to the new
\* model
C17_Witness ==
    /\ request.route = "bandit"
    /\ locals.branch = "exploit"
    /\ response.status = 200
    /\ new_model_count = 4
    /\ new_model_correct = 0
    /\ current_model_count = 0

\* C18: a step that handles a request to /, /predict/single, /predict/silent
\* or /predict/canary leaves the four bandit counters as they were, and a step
\* that handles a request to any route leaves epsilon, canary_percentage and
\* the three loaded model objects as they were.
C18_RoutesIndependent ==
    [][/\ request'.route \in {"root", "single", "silent", "canary"} =>
             /\ current_model_correct' = current_model_correct
             /\ new_model_correct' = new_model_correct
             /\ current_model_count' = current_model_count
             /\ new_model_count' = new_model_count
       /\ request'.route \in {"root", "single", "silent", "canary", "bandit"} =>
             /\ epsilon' = epsilon
             /\ canary_percentage' = canary_percentage
             /\ model' = model
             /\ current_model' = current_model
             /\ new_model' = new_model]_vars

\* C18 witness: a /predict/silent request answered while the bandit counters
\* hold the record of four requests
C18_Witness ==
    /\ request.route = "silent"
    /\ response.status = 200
    /\ current_model_count = 2
    /\ new_model_count = 2
    /\ current_model_correct = 1
    /\ new_model_correct = 2

\* C19: multi_armed_bandit always completes its report: when the loop is over
\* exactly n_rounds rounds have been played, and the accuracy lines are
\* computed without a division by zero, whatever was drawn.
C19_ReportCompletes ==
    /\ sim.pc \in {"done", "ZeroDivisionError"} =>
          /\ sim.round = sim.n_rounds
          /\ sim.model_a_count + sim.model_b_count = sim.n_rounds
    /\ sim.pc # "ZeroDivisionError"

\* C20: hyperparameter tuning terminates: every trial eventually reports its
\* mean_accuracy and tune.run returns, the fold tasks being scheduled even
\* while the running trials hold all the CPUs.
C20_TuningTerminates ==
    <>(/\ tune.pc = "done"
       /\ \A i \in DOMAIN tune.trials : tune.trials[i].pc = "reported")

\* C21: the results of the parallel slow_function tasks are collected in
\* submission order: once ray.get has returned, results has one entry per
\* task and results[i] = i * i for every i (position i + 1 here), whatever
\* order the tasks started and finished in; ray.get returns only when all the
\* tasks have finished, and can return as soon as they have.
C21_ResultsInSubmissionOrder ==
    /\ tasks.pc = "done" =>
          /\ Len(tasks.results) = tasks.n
          /\ \A i \in 0 .. (tasks.n - 1) : tasks.results[i + 1] = i * i
          /\ Len(tasks.finished) = tasks.n
    /\ (tasks.pc = "submit" /\ Len(tasks.refs) = tasks.n
          /\ Len(tasks.finished) = tasks.n) => ENABLED tasks_get

\* C21 witness: the notebook's four tasks finished in the reverse of the
\* order they were submitted in, and results is [0, 1, 4, 9]
C21_Witness ==
    /\ tasks.pc = "done"
    /\ tasks.n = 4
    /\ tasks.finished = <<4, 3, 2, 1>>
    /\ tasks.results = <<0, 1, 4, 9>>
====
